---- MODULE Spec2Model ----
(***************************************************************************)
(* Verification model of the ontology-mcp-server e-commerce assistant.     *)
(*                                                                         *)
(* Part A: LangChainAgent (src/src/agent/react_agent.py): the bounded      *)
(*         tool-orchestration loop `run`, the validation gate              *)
(*         `_should_require_validation`, the reminder injection and the    *)
(*         tool dispatcher `_call_tool`.                                   *)
(* Part B: CommerceService.create_order                                    *)
(*         (src/src/ontology_mcp_server/commerce_service.py) with the      *)
(*         persistence operations of db_service.py and the policy          *)
(*         functions of ecommerce_ontology.py it calls.                    *)
(*                                                                         *)
(* Python dicts are modelled as sets of <<key, value>> pairs, Optional     *)
(* values as records with a `none` flag, texts as sequences of tokens.     *)
(***************************************************************************)
EXTENDS Integers, Sequences, FiniteSets, TLC

(***************************************************************************)
(* Bounds of the model                                                     *)
(***************************************************************************)
\* max_iterations handed to LangChainAgent.__init__
MaxIterations == 2
\* largest number of tool calls the model requests within one turn
MaxToolCalls == 2

(***************************************************************************)
(* Python values                                                           *)
(***************************************************************************)
\* Optional[Dict]: None
NoneDict == [none |-> TRUE, d |-> {}]

\* Optional[Dict]: a dict object
SomeDict(d) == [none |-> FALSE, d |-> d]

\* Optional[int]: None
NoneInt == [none |-> TRUE, n |-> 0]

\* Optional[int]: an int
SomeInt(n) == [none |-> FALSE, n |-> n]

\* bool(x) of an Optional[Dict]: None and {} are falsy
Truthy(o) == ~o.none /\ o.d # {}

\* the keys of a dict
Keys(d) == {kv[1] : kv \in d}

\* d[k]
Get(d, k) == (CHOOSE kv \in d : kv[1] = k)[2]

\* d[k] = v
Put(d, k, v) == {kv \in d : kv[1] # k} \cup {<<k, v>>}

\* the empty dict {}
EmptyDict == {}

(***************************************************************************)
(* Part A.  LangChainAgent                                                 *)
(***************************************************************************)
\* names under which MCPAdapter.create_tools registers capabilities
\* (the three this model uses)
tool_map == {"commerce_create_order", "ontology_validate_order",
             "commerce_search_products"}

\* tool calls a model reply may contain: name and (already parsed) arguments
LlmCalls ==
    { [name |-> "commerce_create_order",
       arguments |-> {<<"user_id", "u1">>, <<"items", "i1">>}],
      [name |-> "commerce_create_order", arguments |-> EmptyDict],
      [name |-> "ontology_validate_order",
       arguments |-> {<<"data", "ttl">>, <<"format", "turtle">>}],
      [name |-> "no_such_tool", arguments |-> EmptyDict] }

\* what tool.parse_arguments and tool.invoke may do on a call: an order with
\* its fields is created or rejected, one without fields fails the schema
ToolOutcomes(call) ==
    IF call.name = "commerce_create_order"
    THEN IF call.arguments = EmptyDict THEN {"raises"} ELSE {"returns", "raises"}
    ELSE {"returns"}

\* text of the assistant reply of an iteration (the replies of a turn are
\* pairwise distinct texts)
ReplyContent(i) == <<"reply", i>>

\* user texts, as token sequences
UserInputs == { <<"hello">>, <<"please", "VALIDATE">> }

\* stages of ConversationStage
Stages == {"browsing", "checkout"}

\* ConversationStage.CHECKOUT
CHECKOUT == "checkout"

\* str.lower() on one token
LowerToken(t) ==
    CASE t = "VALIDATE" -> "validate"
      [] t = "SHACL" -> "shacl"
      [] OTHER -> t

\* Lower with the letter case left as it is
LowerKeepsCase(text) == text

\* str.lower() on a text
Lower(text) == [i \in 1..Len(text) |-> LowerToken(text[i])]

\* `keyword in text` : keyword occurs as a contiguous part of text
Contains(text, keyword) ==
    \E s \in 0..(Len(text) - Len(keyword)) :
        \A j \in 1..Len(keyword) : text[s + j] = keyword[j]

\* the trigger keywords of _should_require_validation
\* (tokenised: yanzheng dingdan, shacl, jiaoyan, validate, shuju jiaoyan)
keywords == { <<"yanzheng", "dingdan">>, <<"shacl">>, <<"jiaoyan">>,
              <<"validate">>, <<"shuju", "jiaoyan">> }

\* indexes of tool_log whose record names the tool
IndexesOf(tool_log, tool) == {i \in 1..Len(tool_log) : tool_log[i].tool = tool}

\* the largest element of a non-empty set of integers
Max(S) == CHOOSE m \in S : \A x \in S : x <= m

\* payload with the keys data and format added when missing
WithDefaults(payload) ==
    LET p1 == IF "data" \in Keys(payload) THEN payload
              ELSE Put(payload, "data", "")
    IN  IF "format" \in Keys(p1) THEN p1 ELSE Put(p1, "format", "turtle")

\* ShouldRequireValidation with the trigger checks ahead of the look for a
\* validation call after the last order creation
ShouldRequireValidationTriggersFirst(pending, stage, user_input, tool_log) ==
    LET creates == {i \in 1..Len(tool_log) : tool_log[i].tool = "commerce_create_order"}
        triggered == \/ \E k \in keywords : Contains(Lower(user_input), k)
                     \/ stage = CHECKOUT
        validated_after ==
            \E c \in creates :
                /\ \A j \in creates : j <= c
                /\ \E i \in (c + 1)..Len(tool_log) :
                      tool_log[i].tool = "ontology_validate_order"
    IN  IF Truthy(pending)
        THEN [requires |-> TRUE, payload |-> pending, tool_log |-> tool_log]
        ELSE IF triggered \/ (creates # {} /\ ~validated_after)
        THEN [requires |-> TRUE, payload |-> SomeDict(WithDefaults(EmptyDict)),
              tool_log |-> tool_log]
        ELSE [requires |-> FALSE, payload |-> NoneDict, tool_log |-> tool_log]

\* _should_require_validation: the answer, the payload and the tool log as
\* the call leaves it (the payload taken from a record's input is the same
\* dict object, so the keys added to it show up in the record)
ShouldRequireValidation(pending, stage, user_input, tool_log) ==
    LET creates == IndexesOf(tool_log, "commerce_create_order")
        last_create_index == IF creates = {} THEN 0 ELSE Max(creates)
        validated_after ==
            /\ creates # {}
            /\ \E i \in (last_create_index + 1)..Len(tool_log) :
                  tool_log[i].tool = "ontology_validate_order"
        by_keyword == \E k \in keywords : Contains(Lower(user_input), k)
        by_stage == ~by_keyword /\ stage = CHECKOUT
        by_log == ~by_keyword /\ ~by_stage /\ creates # {}
        entry_input == tool_log[last_create_index].input
        aliased == by_log /\ entry_input # EmptyDict
        payload == IF aliased THEN WithDefaults(entry_input)
                   ELSE WithDefaults(EmptyDict)
    IN  IF Truthy(pending)
        THEN [requires |-> TRUE, payload |-> pending, tool_log |-> tool_log]
        ELSE IF validated_after
        THEN [requires |-> FALSE, payload |-> NoneDict, tool_log |-> tool_log]
        ELSE IF ~(by_keyword \/ by_stage \/ by_log)
        THEN [requires |-> FALSE, payload |-> NoneDict, tool_log |-> tool_log]
        ELSE [requires |-> TRUE, payload |-> SomeDict(payload),
              tool_log |-> IF aliased
                           THEN [tool_log EXCEPT ![last_create_index].input = payload]
                           ELSE tool_log]

\* the system reminder message of _inject_validation_reminder
Reminder(payload, iteration) ==
    [role |-> "system", kind |-> "reminder", content |-> <<"validation_reminder">>,
     payload |-> payload, tool_calls |-> <<>>, iteration |-> iteration]

\* InjectValidationReminder without the test of the iteration index
InjectValidationReminderAlways(messages, issued, payload, iteration) ==
    [messages |-> Append(messages, Reminder(payload, iteration)),
     issued |-> SomeInt(iteration)]

\* _inject_validation_reminder: messages and _validation_issued_turn after it
InjectValidationReminder(messages, issued, payload, iteration) ==
    IF ~issued.none /\ issued.n = iteration
    THEN [messages |-> messages, issued |-> issued]
    ELSE [messages |-> Append(messages, Reminder(payload, iteration)),
          issued |-> SomeInt(iteration)]

\* _call_tool: the observation string handed to the loop; json tells whether
\* it is a JSON envelope, keys are the envelope's keys
CallTool(name, outcome) ==
    IF name \notin tool_map
    THEN [json |-> FALSE, keys |-> {}, text |-> "tool_not_found"]
    ELSE IF outcome = "returns"
    THEN [json |-> TRUE, keys |-> {"_tool_info", "result"}, text |-> ""]
    ELSE [json |-> TRUE, keys |-> {"_tool_info", "error"}, text |-> ""]

\* `a or b or c` on Optional[Dict] values
OrDict(a, b, c) == IF Truthy(a) THEN a ELSE IF Truthy(b) THEN b ELSE c

\* the literal {"data": "", "format": "turtle"}
DefaultPayload == SomeDict({<<"data", "">>, <<"format", "turtle">>})

\* the apology text returned when the model call fails
LlmErrorAnswer == <<"llm_call_failed">>

\* the text of no reply
NoContent == <<>>

\* no observation (messages that are not tool results)
NoObservation == [json |-> FALSE, keys |-> {}, text |-> ""]

\* a message of the history handed to the model
Message(role, kind, content, tool_calls, observation, iteration) ==
    [role |-> role, kind |-> kind, content |-> content, payload |-> NoneDict,
     tool_calls |-> tool_calls, observation |-> observation,
     iteration |-> iteration]

\* what run returns; returned = FALSE while the turn is running
NoResult ==
    [returned |-> FALSE, final_answer |-> NoContent, plan |-> <<>>, tool_log |-> <<>>,
     error |-> FALSE]

\* the plan line appended when the loop runs out of iterations
MaxIterationsMarker == "max_iterations_reached"

\* all non-empty sequences over S of length at most n
SeqsUpTo(S, n) == UNION {[1..k -> S] : k \in 1..n}

VARIABLES
    pending_validation,         \* self._pending_validation
    validation_issued_turn,     \* self._validation_issued_turn
    last_validation_iteration,  \* self._last_validation_iteration
    stage,                      \* self.state_manager.state.stage
    user_input,                 \* run: argument
    messages,                   \* run: messages
    tool_log,                   \* run: tool_log
    plan_lines,                 \* run: plan_lines
    history,                    \* run: history
    final_answer,               \* run: final_answer
    last_ai,                    \* run: last_ai (content of it)
    iteration,                  \* run: loop variable
    requires_validation,        \* run: requires_validation
    payload_hint,               \* run: payload_hint
    tool_calls,                 \* run: tool calls of the reply not yet dispatched
    execution_log,              \* run: step types of execution_log
    result,                     \* value returned by the last run
    pc                          \* position of run

agent_vars ==
    <<pending_validation, validation_issued_turn, last_validation_iteration,
      stage, user_input, messages, tool_log, plan_lines, history, final_answer,
      last_ai, iteration, requires_validation, payload_hint, tool_calls,
      execution_log, result, pc>>

\* LangChainAgent.__init__ (state tracking enabled, stage as initialised)
AgentInit ==
    /\ pending_validation = NoneDict
    /\ validation_issued_turn = NoneInt
    /\ last_validation_iteration = NoneInt
    /\ stage \in Stages
    /\ user_input = <<>>
    /\ messages = <<>>
    /\ tool_log = <<>>
    /\ plan_lines = <<>>
    /\ history = <<>>
    /\ final_answer = NoContent
    /\ last_ai = [none |-> TRUE, content |-> NoContent]
    /\ iteration = 0
    /\ requires_validation = FALSE
    /\ payload_hint = NoneDict
    /\ tool_calls = <<>>
    /\ execution_log = <<>>
    /\ result = NoResult
    /\ pc = "idle"

\* StartTurn with the pending requirement reset at the start of the turn
StartTurnClearsPending(text) ==
    /\ pc = "idle"
    /\ user_input' = text
    /\ messages' = << Message("system", "system_prompt", NoContent, <<>>, NoObservation, 0),
                      Message("user", "user", NoContent, <<>>, NoObservation, 0) >>
    /\ tool_log' = <<>>
    /\ plan_lines' = <<>>
    /\ history' = <<>>
    /\ final_answer' = NoContent
    /\ last_ai' = [none |-> TRUE, content |-> NoContent]
    /\ iteration' = 1
    /\ requires_validation' = FALSE
    /\ payload_hint' = NoneDict
    /\ tool_calls' = <<>>
    /\ execution_log' = <<"user_input", "system_prompt", "enhanced_prompt",
                          "iteration_start">>
    /\ result' = NoResult
    /\ pc' = "gate_pre"
    /\ pending_validation' = NoneDict
    /\ UNCHANGED <<validation_issued_turn, last_validation_iteration, stage>>

\* run, up to the head of the for loop
StartTurn(text) ==
    /\ pc = "idle"
    /\ user_input' = text
    /\ messages' = << Message("system", "system_prompt", NoContent, <<>>, NoObservation, 0),
                      Message("user", "user", NoContent, <<>>, NoObservation, 0) >>
    /\ tool_log' = <<>>
    /\ plan_lines' = <<>>
    /\ history' = <<>>
    /\ final_answer' = NoContent
    /\ last_ai' = [none |-> TRUE, content |-> NoContent]
    /\ iteration' = 1
    /\ requires_validation' = FALSE
    /\ payload_hint' = NoneDict
    /\ tool_calls' = <<>>
    /\ execution_log' = <<"user_input", "system_prompt", "enhanced_prompt",
                          "iteration_start">>
    /\ result' = NoResult
    /\ pc' = "gate_pre"
    /\ UNCHANGED <<pending_validation, validation_issued_turn,
                   last_validation_iteration, stage>>

\* LoopAdvance with the range of the loop one iteration too long
LoopAdvanceOneMore(plan, log) ==
    IF iteration < MaxIterations + 1
    THEN /\ iteration' = iteration + 1
         /\ plan_lines' = plan
         /\ execution_log' = Append(log, "iteration_start")
         /\ final_answer' = final_answer
         /\ pc' = "gate_pre"
    ELSE /\ iteration' = iteration
         /\ plan_lines' = Append(plan, MaxIterationsMarker)
         /\ execution_log' = Append(log, "max_iterations")
         /\ final_answer' = IF last_ai.none THEN final_answer ELSE last_ai.content
         /\ pc' = "after_loop"

\* the for loop moves on: next iteration, or the else branch of the loop
\* when range(1, max_iterations + 1) is used up
LoopAdvance(plan, log) ==
    IF iteration < MaxIterations
    THEN /\ iteration' = iteration + 1
         /\ plan_lines' = plan
         /\ execution_log' = Append(log, "iteration_start")
         /\ final_answer' = final_answer
         /\ pc' = "gate_pre"
    ELSE /\ iteration' = iteration
         /\ plan_lines' = Append(plan, MaxIterationsMarker)
         /\ execution_log' = Append(log, "max_iterations")
         /\ final_answer' = IF last_ai.none THEN final_answer ELSE last_ai.content
         /\ pc' = "after_loop"

\* run: the call of _should_require_validation at the head of an iteration
\* (pc = gate_pre) or after a reply without tool calls (pc = gate_post)
GateEval ==
    /\ pc \in {"gate_pre", "gate_post"}
    /\ LET g == ShouldRequireValidation(pending_validation, stage, user_input, tool_log)
       IN  /\ requires_validation' = g.requires
           /\ payload_hint' = g.payload
           /\ tool_log' = g.tool_log
    /\ pc' = IF pc = "gate_pre" THEN "apply_pre" ELSE "apply_post"
    /\ UNCHANGED <<pending_validation, validation_issued_turn,
                   last_validation_iteration, stage, user_input, messages,
                   plan_lines, history, final_answer, last_ai, iteration,
                   tool_calls, execution_log, result>>

\* run: `if requires_validation:` at the head of an iteration, up to the
\* request to the model
ApplyPre ==
    /\ pc = "apply_pre"
    /\ IF requires_validation
       THEN LET p == OrDict(payload_hint, pending_validation, DefaultPayload)
                r == InjectValidationReminder(messages, validation_issued_turn,
                                              p, iteration)
            IN  /\ pending_validation' = p
                /\ messages' = r.messages
                /\ validation_issued_turn' = r.issued
                /\ execution_log' = execution_log \o <<"validation_required", "llm_input">>
       ELSE /\ UNCHANGED <<pending_validation, messages, validation_issued_turn>>
            /\ execution_log' = Append(execution_log, "llm_input")
    /\ pc' = "llm"
    /\ UNCHANGED <<last_validation_iteration, stage, user_input, tool_log,
                   plan_lines, history, final_answer, last_ai, iteration,
                   requires_validation, payload_hint, tool_calls, result>>

\* run: self.llm.generate returns a reply; the assistant message is appended
LlmReply(content, calls) ==
    /\ pc = "llm"
    /\ history' = Append(history, content)
    /\ messages' = Append(messages,
                          Message("assistant", "assistant", content, calls,
                                  NoObservation, iteration))
    /\ last_ai' = [none |-> FALSE, content |-> content]
    /\ execution_log' = Append(execution_log, "llm_output")
    /\ tool_calls' = calls
    /\ pc' = IF calls = <<>> THEN "gate_post" ELSE "dispatch"
    /\ UNCHANGED <<pending_validation, validation_issued_turn,
                   last_validation_iteration, stage, user_input, tool_log,
                   plan_lines, final_answer, iteration, requires_validation,
                   payload_hint, result>>

\* LlmRaise going through the stage update on its way out
LlmRaiseUpdatingStage ==
    /\ pc = "llm"
    /\ final_answer' = LlmErrorAnswer
    /\ execution_log' = execution_log \o <<"llm_error", "execution_complete">>
    /\ result' = [returned |-> TRUE, final_answer |-> LlmErrorAnswer,
                  plan |-> plan_lines, tool_log |-> tool_log, error |-> TRUE]
    /\ pc' = "idle"
    /\ stage' = CHECKOUT
    /\ UNCHANGED <<pending_validation, validation_issued_turn,
                   last_validation_iteration, user_input, messages,
                   tool_log, plan_lines, history, last_ai, iteration,
                   requires_validation, payload_hint, tool_calls>>

\* LlmRaise with the failure returned as an ordinary answer
LlmRaiseWithoutErrorField ==
    /\ pc = "llm"
    /\ final_answer' = LlmErrorAnswer
    /\ execution_log' = execution_log \o <<"llm_error", "execution_complete">>
    /\ result' = [returned |-> TRUE, final_answer |-> LlmErrorAnswer,
                  plan |-> plan_lines, tool_log |-> tool_log, error |-> FALSE]
    /\ pc' = "idle"
    /\ UNCHANGED <<pending_validation, validation_issued_turn,
                   last_validation_iteration, stage, user_input, messages,
                   tool_log, plan_lines, history, last_ai, iteration,
                   requires_validation, payload_hint, tool_calls>>

\* run: self.llm.generate raises; the except branch returns at once
LlmRaise ==
    /\ pc = "llm"
    /\ final_answer' = LlmErrorAnswer
    /\ execution_log' = execution_log \o <<"llm_error", "execution_complete">>
    /\ result' = [returned |-> TRUE, final_answer |-> LlmErrorAnswer,
                  plan |-> plan_lines, tool_log |-> tool_log, error |-> TRUE]
    /\ pc' = "idle"
    /\ UNCHANGED <<pending_validation, validation_issued_turn,
                   last_validation_iteration, stage, user_input, messages,
                   tool_log, plan_lines, history, last_ai, iteration,
                   requires_validation, payload_hint, tool_calls>>

\* ApplyPost without the second look at the gate
ApplyPostWithoutGuard ==
    /\ pc = "apply_post"
    /\ final_answer' = last_ai.content
    /\ execution_log' = Append(execution_log, "final_answer")
    /\ pc' = "after_loop"
    /\ UNCHANGED <<pending_validation, messages, validation_issued_turn,
                   plan_lines, iteration>>
    /\ UNCHANGED <<last_validation_iteration, stage, user_input, tool_log,
                   history, last_ai, requires_validation, payload_hint,
                   tool_calls, result>>

\* run: `if not tool_calls:` after the second gate call: either the guard
\* (reminder and continue) or the final answer (break)
ApplyPost ==
    /\ pc = "apply_post"
    /\ IF requires_validation
       THEN LET p == OrDict(payload_hint, pending_validation, DefaultPayload)
                r == InjectValidationReminder(messages, validation_issued_turn,
                                              p, iteration)
            IN  /\ pending_validation' = p
                /\ messages' = r.messages
                /\ validation_issued_turn' = r.issued
                /\ LoopAdvance(plan_lines, Append(execution_log, "validation_guard"))
       ELSE /\ final_answer' = last_ai.content
            /\ execution_log' = Append(execution_log, "final_answer")
            /\ pc' = "after_loop"
            /\ UNCHANGED <<pending_validation, messages, validation_issued_turn,
                           plan_lines, iteration>>
    /\ UNCHANGED <<last_validation_iteration, stage, user_input, tool_log,
                   history, last_ai, requires_validation, payload_hint,
                   tool_calls, result>>

\* run: one pass of `for call in tool_calls:`; after the last call of the
\* reply the for loop over the iterations moves on
DispatchTool ==
    /\ pc = "dispatch"
    /\ \E outcome \in ToolOutcomes(Head(tool_calls)) :
       LET call == Head(tool_calls)
           observation == CallTool(call.name, outcome)
           rest == Tail(tool_calls)
           plan == Append(plan_lines, call.name)
           log1 == execution_log \o <<"tool_call", "tool_result">>
           log2 == IF call.name = "ontology_validate_order"
                   THEN Append(log1, "validation_completed") ELSE log1
       IN  /\ tool_log' = Append(tool_log,
                                 [tool |-> call.name, input |-> call.arguments,
                                  observation |-> observation,
                                  iteration |-> iteration])
           /\ IF call.name = "ontology_validate_order"
              THEN /\ pending_validation' = NoneDict
                   /\ last_validation_iteration' = SomeInt(iteration)
                   /\ validation_issued_turn' = NoneInt
              ELSE UNCHANGED <<pending_validation, last_validation_iteration,
                               validation_issued_turn>>
           /\ messages' = Append(messages,
                                 Message("tool", "tool", NoContent, <<>>, observation,
                                         iteration))
           /\ tool_calls' = rest
           /\ IF rest = <<>>
              THEN LoopAdvance(plan, log2)
              ELSE /\ plan_lines' = plan
                   /\ execution_log' = log2
                   /\ pc' = "dispatch"
                   /\ UNCHANGED <<iteration, final_answer>>
    /\ UNCHANGED <<stage, user_input, history, last_ai, requires_validation,
                   payload_hint, result>>

\* the stages ConversationStateManager.infer_stage_from_intent may return
InferStage == Stages

\* run: after the loop: the stage is updated and the result returned
FinishTurn(new_stage) ==
    /\ pc = "after_loop"
    /\ stage' = new_stage
    /\ execution_log' = execution_log \o <<"conversation_state", "execution_complete">>
    /\ result' = [returned |-> TRUE, final_answer |-> final_answer,
                  plan |-> plan_lines, tool_log |-> tool_log, error |-> FALSE]
    /\ pc' = "idle"
    /\ UNCHANGED <<pending_validation, validation_issued_turn,
                   last_validation_iteration, user_input, messages, tool_log,
                   plan_lines, history, final_answer, last_ai, iteration,
                   requires_validation, payload_hint, tool_calls>>

(***************************************************************************)
(* Part B.  CommerceService.create_order                                   *)
(*                                                                         *)
(* Money is counted in whole currency units; catalogue and explicit prices *)
(* are multiples of 100, so every product with a rate of 0.90, 0.95 or     *)
(* 0.98 is a whole number, as exact as the Decimal arithmetic of the code. *)
(***************************************************************************)
\* largest number of orders the store takes
MaxOrders == 2
\* largest number of item lines of one request
MaxItems == 2

\* payments recorded in a run
MaxPayments == 2

\* the callers of the service (one call at a time each)
Callers == {1, 2}

\* ids of the rows of the users table
UserIds == {1, 2, 3}

\* ids of the rows of the products table
ProductIds == {1, 2}

\* user ids a request may carry (9: no such user)
RequestUserIds == UserIds \cup {9}

\* Optional[Decimal]: None
NoPrice == [none |-> TRUE, n |-> 0]

\* Optional[Decimal]: a price
Price(n) == [none |-> FALSE, n |-> n]

\* item lines a request may carry (product 9: no such product; product 2 has
\* no catalogue price; an explicit unit_price is taken as it comes)
RequestEntries ==
    { [product_id |-> 1, quantity |-> 2, unit_price |-> NoPrice],
      [product_id |-> 1, quantity |-> 0, unit_price |-> NoPrice],
      [product_id |-> 1, quantity |-> 4, unit_price |-> NoPrice],
      [product_id |-> 2, quantity |-> 1, unit_price |-> NoPrice],
      [product_id |-> 2, quantity |-> 1, unit_price |-> Price(100)],
      [product_id |-> 2, quantity |-> 1, unit_price |-> Price(-100)],
      [product_id |-> 9, quantity |-> 1, unit_price |-> NoPrice] }

\* what shacl_service.validate_order does with the order's RDF
ShaclOutcomes == {"conforms", "violates", "raises"}

\* infer_user_level with thresholds that exclude their own value
InferUserLevelStrict(total_spent) ==
    IF total_spent > 10000 THEN "SVIP"
    ELSE IF total_spent > 5000 THEN "VIP"
    ELSE "Regular"

\* infer_user_level
InferUserLevel(total_spent) ==
    IF total_spent >= 10000 THEN "SVIP"
    ELSE IF total_spent >= 5000 THEN "VIP"
    ELSE "Regular"

\* infer_discount: the list applicable_discounts, rates in percent
ApplicableDiscounts(user_level, order_amount, is_first_order) ==
    (IF user_level = "SVIP"
        THEN <<[rate |-> 90, priority |-> 40, rule |-> "SVIPDiscountRule"]>>
     ELSE IF user_level = "VIP"
        THEN <<[rate |-> 95, priority |-> 30, rule |-> "VIPDiscountRule"]>>
     ELSE <<>>)
    \o
    (IF order_amount >= 10000
        THEN <<[rate |-> 90, priority |-> 25, rule |-> "VolumeDiscount10kRule"]>>
     ELSE IF order_amount >= 5000
        THEN <<[rate |-> 95, priority |-> 15, rule |-> "VolumeDiscount5kRule"]>>
     ELSE <<>>)
    \o
    (IF is_first_order
        THEN <<[rate |-> 98, priority |-> 5, rule |-> "FirstOrderDiscountRule"]>>
     ELSE <<>>)

\* the entry of the highest priority in place of the lowest rate
BestDiscountByPriority(applicable) ==
    LET k == CHOOSE i \in DOMAIN applicable :
                \A j \in DOMAIN applicable :
                    applicable[i].priority >= applicable[j].priority
    IN  applicable[k]

\* max in place of min: the first entry of the highest rate
BestDiscountHighestRate(applicable) ==
    LET k == CHOOSE i \in DOMAIN applicable :
                /\ \A j \in DOMAIN applicable : applicable[i].rate >= applicable[j].rate
                /\ \A j \in DOMAIN applicable :
                      applicable[j].rate = applicable[i].rate => i <= j
    IN  applicable[k]

\* min(applicable_discounts, key=rate): the first entry of the lowest rate
BestDiscount(applicable) ==
    LET k == CHOOSE i \in DOMAIN applicable :
                /\ \A j \in DOMAIN applicable : applicable[i].rate <= applicable[j].rate
                /\ \A j \in DOMAIN applicable :
                      applicable[j].rate = applicable[i].rate => i <= j
    IN  applicable[k]

\* infer_discount
InferDiscount(user_level, order_amount, is_first_order) ==
    LET applicable == ApplicableDiscounts(user_level, order_amount, is_first_order)
    IN  IF applicable = <<>>
        THEN [rule_applied |-> "none", discount_rate |-> 100,
              discount_amount |-> 0, final_amount |-> order_amount]
        ELSE LET best == BestDiscount(applicable)
                 final == (order_amount * best.rate) \div 100
             IN  [rule_applied |-> best.rule, discount_rate |-> best.rate,
                  discount_amount |-> order_amount - final,
                  final_amount |-> final]

\* infer_shipping
InferShipping(user_level, order_amount, is_remote_area) ==
    LET base == IF user_level = "SVIP"
                THEN [cost |-> 0, type |-> "NextDayDelivery", free |-> TRUE]
                ELSE IF user_level = "VIP"
                THEN [cost |-> 0, type |-> "Standard", free |-> TRUE]
                ELSE IF order_amount >= 500
                THEN [cost |-> 0, type |-> "Standard", free |-> TRUE]
                ELSE [cost |-> 15, type |-> "Standard", free |-> FALSE]
    IN  IF is_remote_area /\ ~(user_level = "SVIP")
        THEN [shipping_cost |-> base.cost + 30, shipping_type |-> base.type,
              free_shipping |-> FALSE]
        ELSE [shipping_cost |-> base.cost, shipping_type |-> base.type,
              free_shipping |-> base.free]

\* infer_order_details handing the gross amount to infer_shipping
InferOrderDetailsGrossShipping(user_data, order_amount, is_remote) ==
    LET inferred_level == InferUserLevel(user_data.total_spent)
        discount_info == InferDiscount(inferred_level, order_amount,
                                       user_data.order_count = 0)
        shipping_info == InferShipping(inferred_level, order_amount, is_remote)
    IN  [original_level |-> user_data.user_level,
         inferred_level |-> inferred_level,
         should_upgrade |-> inferred_level # user_data.user_level,
         discount_inference |-> discount_info,
         shipping_inference |-> shipping_info,
         total_payable |-> discount_info.final_amount + shipping_info.shipping_cost]

\* infer_order_details
InferOrderDetails(user_data, order_amount, is_remote) ==
    LET inferred_level == InferUserLevel(user_data.total_spent)
        discount_info == InferDiscount(inferred_level, order_amount,
                                       user_data.order_count = 0)
        shipping_info == InferShipping(inferred_level, discount_info.final_amount,
                                       is_remote)
    IN  [original_level |-> user_data.user_level,
         inferred_level |-> inferred_level,
         should_upgrade |-> inferred_level # user_data.user_level,
         discount_inference |-> discount_info,
         shipping_inference |-> shipping_info,
         total_payable |-> discount_info.final_amount + shipping_info.shipping_cost]

\* str.lower() of an order status
StatusLower(order_status) ==
    IF order_status = "PAID" THEN "paid" ELSE order_status

\* minutes in an hour: elapsed times are counted in minutes
MinutesPerHour == 60

\* infer_cancellation_policy with the shipment left out of account
InferCancellationPolicyIgnoringShipment(order_status, minutes_since_created, has_shipment) ==
    LET status == StatusLower(IF order_status = "" THEN "pending" ELSE order_status)
        minutes == IF minutes_since_created > 0 THEN minutes_since_created ELSE 0
    IN  IF status \in {"shipped", "delivered"}
        THEN [status |-> status, allowed |-> FALSE,
              rule |-> "ShippedCancellationBlockRule",
              deadline_hours |-> SomeInt(0), reason |-> "shipped"]
        ELSE IF status = "pending"
        THEN IF minutes <= 24 * MinutesPerHour
             THEN [status |-> status, allowed |-> TRUE,
                   rule |-> "Pending24hCancellationRule",
                   deadline_hours |-> SomeInt(24), reason |-> "pending_within_24h"]
             ELSE [status |-> status, allowed |-> FALSE,
                   rule |-> "DefaultCancellationRule",
                   deadline_hours |-> SomeInt(24), reason |-> "pending_after_24h"]
        ELSE IF status = "paid"
        THEN IF minutes <= 12 * MinutesPerHour
             THEN [status |-> status, allowed |-> TRUE,
                   rule |-> "Paid12hCancellationRule",
                   deadline_hours |-> SomeInt(12), reason |-> "paid_within_12h"]
             ELSE [status |-> status, allowed |-> FALSE,
                   rule |-> "DefaultCancellationRule",
                   deadline_hours |-> SomeInt(12), reason |-> "paid_after_12h"]
        ELSE IF status \in {"cancelled", "returned"}
        THEN [status |-> status, allowed |-> FALSE,
              rule |-> "AlreadyTerminatedCancellationRule",
              deadline_hours |-> NoneInt, reason |-> "terminated"]
        ELSE [status |-> status, allowed |-> FALSE,
              rule |-> "DefaultCancellationRule",
              deadline_hours |-> NoneInt, reason |-> "unsupported"]

\* infer_cancellation_policy; the elapsed time in minutes
InferCancellationPolicy(order_status, minutes_since_created, has_shipment) ==
    LET status == StatusLower(IF order_status = "" THEN "pending" ELSE order_status)
        minutes == IF minutes_since_created > 0 THEN minutes_since_created ELSE 0
    IN  IF status \in {"shipped", "delivered"} \/ has_shipment
        THEN [status |-> status, allowed |-> FALSE,
              rule |-> "ShippedCancellationBlockRule",
              deadline_hours |-> SomeInt(0), reason |-> "shipped"]
        ELSE IF status = "pending"
        THEN IF minutes <= 24 * MinutesPerHour
             THEN [status |-> status, allowed |-> TRUE,
                   rule |-> "Pending24hCancellationRule",
                   deadline_hours |-> SomeInt(24), reason |-> "pending_within_24h"]
             ELSE [status |-> status, allowed |-> FALSE,
                   rule |-> "DefaultCancellationRule",
                   deadline_hours |-> SomeInt(24), reason |-> "pending_after_24h"]
        ELSE IF status = "paid"
        THEN IF minutes <= 12 * MinutesPerHour
             THEN [status |-> status, allowed |-> TRUE,
                   rule |-> "Paid12hCancellationRule",
                   deadline_hours |-> SomeInt(12), reason |-> "paid_within_12h"]
             ELSE [status |-> status, allowed |-> FALSE,
                   rule |-> "DefaultCancellationRule",
                   deadline_hours |-> SomeInt(12), reason |-> "paid_after_12h"]
        ELSE IF status \in {"cancelled", "returned"}
        THEN [status |-> status, allowed |-> FALSE,
              rule |-> "AlreadyTerminatedCancellationRule",
              deadline_hours |-> NoneInt, reason |-> "terminated"]
        ELSE [status |-> status, allowed |-> FALSE,
              rule |-> "DefaultCancellationRule",
              deadline_hours |-> NoneInt, reason |-> "unsupported"]

VARIABLES
    users,      \* table users: user_id -> row (user_level, total_spent)
    products,   \* table products: product_id -> row (price, stock_quantity)
    orders,     \* table orders with their order_items, in order_id order
    co_pc,      \* create_order: position of each caller's call
    co_frame,   \* create_order: the local variables of each caller's last call
    co_result,  \* outcome of each caller's last call
    before,     \* the tables as each caller saw them before its last call
    shipments,  \* table shipments: the order_ids that have a shipment row
    payments,   \* table payments: the payment rows, in payment_id order
    ca_frame    \* cancel_order: the local variables of each caller's last call

commerce_vars ==
    <<users, products, orders, co_pc, co_frame, co_result, before, shipments,
      payments, ca_frame>>

\* the three tables
Store == [users |-> users, products |-> products, orders |-> orders]

\* the locals of a call that is not running
NoFrame ==
    [user_id |-> 0, user |-> [user_level |-> "Regular", total_spent |-> 0],
     is_remote |-> FALSE, prepared_items |-> <<>>, discount_amount |-> 0,
     total_payable |-> 0, should_upgrade |-> FALSE, inferred_level |-> "Regular",
     shipping_cost |-> 0, shacl |-> "none", next_item |-> 0]

\* cancel_order: the locals of a call that is not running
NoCancelFrame ==
    [order_id |-> 0, order_status |-> "", minutes_since_order |-> 0,
     has_shipment |-> FALSE,
     policy |-> [status |-> "", allowed |-> FALSE, rule |-> "",
                 deadline_hours |-> NoneInt, reason |-> ""],
     cancelled |-> FALSE, allowed |-> FALSE]

\* how a call ended: "returned", or the reason of the exception raised and
\* the position of the entry it names (0 when it names none)
Outcome(status, line) == [status |-> status, line |-> line]

\* a database as init_database and the seeding scripts leave it: user 1 as
\* create_user makes it, user 3 as add_bulk_users.py seeds its fourth user
\* (SVIP, 7600 + 3 * 220)
CommerceInit ==
    /\ users = (1 :> [user_level |-> "Regular", total_spent |-> 0])
               @@ (2 :> [user_level |-> "VIP", total_spent |-> 6000])
               @@ (3 :> [user_level |-> "SVIP", total_spent |-> 8260])
    /\ products = (1 :> [price |-> Price(3000), stock_quantity |-> 3])
                  @@ (2 :> [price |-> NoPrice, stock_quantity |-> 1])
    /\ orders = <<>>
    /\ co_pc = [c \in Callers |-> "idle"]
    /\ co_frame = [c \in Callers |-> NoFrame]
    /\ co_result = [c \in Callers |-> Outcome("none", 0)]
    /\ before = [c \in Callers |-> [users |-> <<>>, products |-> <<>>, orders |-> <<>>]]
    /\ shipments = {}
    /\ payments = <<>>
    /\ ca_frame = [c \in Callers |-> NoCancelFrame]

\* ProductService.check_stock
CheckStock(product_id, required_quantity) ==
    IF product_id \in DOMAIN products
    THEN products[product_id].stock_quantity >= required_quantity
    ELSE FALSE

\* create_order: one pass of `for entry in items:`; the reason of the
\* ValueError it raises, or "ok" with the prepared line
PrepareEntry(entry) ==
    IF entry.quantity <= 0 THEN [status |-> "quantity_not_positive"]
    ELSE IF entry.product_id \notin DOMAIN products
    THEN [status |-> "product_missing"]
    ELSE IF ~CheckStock(entry.product_id, entry.quantity)
    THEN [status |-> "stock_insufficient"]
    ELSE IF ~entry.unit_price.none
    THEN [status |-> "ok", product_id |-> entry.product_id,
          quantity |-> entry.quantity, unit_price |-> entry.unit_price.n]
    ELSE IF ~products[entry.product_id].price.none
    THEN [status |-> "ok", product_id |-> entry.product_id,
          quantity |-> entry.quantity,
          unit_price |-> products[entry.product_id].price.n]
    ELSE [status |-> "price_invalid"]

\* sum of quantity * unit_price over the lines
RECURSIVE SumLines(_)
SumLines(lines) ==
    IF lines = <<>> THEN 0
    ELSE Head(lines).quantity * Head(lines).unit_price + SumLines(Tail(lines))

\* _count_user_orders
CountUserOrders(user_id) ==
    Cardinality({i \in DOMAIN orders : orders[i].user_id = user_id})

\* ProductService.update_stock
UpdateStock(stock, product_id, quantity_change) ==
    IF product_id \in DOMAIN stock
    THEN [stock EXCEPT ![product_id].stock_quantity = @ + quantity_change]
    ELSE stock

\* create_order, lines 364-372: the checks of the item list and of the user.
\* items_empty says whether the request's item list is empty; the entries of
\* a list that is not are met one by one in the loop
CreateOrderEnter(c, user_id, is_remote, items_empty) ==
    /\ co_pc[c] = "idle"
    /\ Len(orders) < MaxOrders
    /\ before' = [before EXCEPT ![c] = Store]
    /\ IF items_empty \/ user_id \notin DOMAIN users
       THEN /\ co_result' = [co_result EXCEPT ![c] =
                   Outcome(IF items_empty THEN "items_empty" ELSE "user_missing", 0)]
            /\ co_frame' = [co_frame EXCEPT ![c] = NoFrame]
            /\ UNCHANGED co_pc
       ELSE /\ co_frame' = [co_frame EXCEPT ![c] =
                   [NoFrame EXCEPT !.user_id = user_id,
                                   !.user = users[user_id],
                                   !.is_remote = is_remote]]
            /\ co_pc' = [co_pc EXCEPT ![c] = "items"]
            /\ co_result' = [co_result EXCEPT ![c] = Outcome("none", 0)]
    /\ UNCHANGED <<payments, shipments, ca_frame, users, products, orders>>

\* the loop of create_order calling update_stock for a line as soon as the
\* line is prepared
CreateOrderEntryWritingAsItGoes(c, entry) ==
    /\ co_pc[c] = "items"
    /\ Len(co_frame[c].prepared_items) < MaxItems
    /\ LET line == PrepareEntry(entry)
       IN  IF line.status # "ok"
           THEN /\ co_result' = [co_result EXCEPT ![c] =
                       Outcome(line.status, Len(co_frame[c].prepared_items) + 1)]
                /\ co_pc' = [co_pc EXCEPT ![c] = "idle"]
                /\ co_frame' = [co_frame EXCEPT ![c] = NoFrame]
                /\ UNCHANGED products
           ELSE /\ co_frame' = [co_frame EXCEPT ![c].prepared_items =
                       Append(@, [product_id |-> line.product_id,
                                  quantity |-> line.quantity,
                                  unit_price |-> line.unit_price])]
                /\ products' = UpdateStock(products, line.product_id, -line.quantity)
                /\ UNCHANGED <<co_pc, co_result>>
    /\ UNCHANGED <<payments, shipments, ca_frame, users, orders, before>>

\* create_order, lines 374-410: one pass of `for entry in items:` over the
\* next entry of the request; it raises, or appends the prepared line
CreateOrderEntry(c, entry) ==
    /\ co_pc[c] = "items"
    /\ Len(co_frame[c].prepared_items) < MaxItems
    /\ LET line == PrepareEntry(entry)
       IN  IF line.status # "ok"
           THEN /\ co_result' = [co_result EXCEPT ![c] =
                       Outcome(line.status, Len(co_frame[c].prepared_items) + 1)]
                /\ co_pc' = [co_pc EXCEPT ![c] = "idle"]
                /\ co_frame' = [co_frame EXCEPT ![c] = NoFrame]
           ELSE /\ co_frame' = [co_frame EXCEPT ![c].prepared_items =
                       Append(@, [product_id |-> line.product_id,
                                  quantity |-> line.quantity,
                                  unit_price |-> line.unit_price])]
                /\ UNCHANGED <<co_pc, co_result>>
    /\ UNCHANGED <<payments, shipments, ca_frame, users, products, orders, before>>

\* create_order, lines 412-425: the request has no further entry; the policy
\* inference over the user as read at line 366 and the prepared lines
CreateOrderInfer(c) ==
    /\ co_pc[c] = "items"
    /\ co_frame[c].prepared_items # <<>>
    /\ LET f == co_frame[c]
           user_data == [user_level |-> f.user.user_level,
                         total_spent |-> f.user.total_spent,
                         order_count |-> CountUserOrders(f.user_id)]
           inference == InferOrderDetails(user_data, SumLines(f.prepared_items),
                                          f.is_remote)
       IN  co_frame' = [co_frame EXCEPT ![c] =
               [f EXCEPT !.discount_amount = inference.discount_inference.discount_amount,
                         !.total_payable = inference.total_payable,
                         !.shipping_cost = inference.shipping_inference.shipping_cost,
                         !.should_upgrade = inference.should_upgrade,
                         !.inferred_level = inference.inferred_level,
                         !.next_item = 1]]
    /\ co_pc' = [co_pc EXCEPT ![c] = "shacl"]
    /\ UNCHANGED <<payments, shipments, ca_frame, users, products, orders, co_result, before>>

\* create_order: the SHACL check (lines 427-444): a report of non-conformance
\* raises, any other exception of the check is logged and ignored
CreateOrderShacl(c, shacl) ==
    /\ co_pc[c] = "shacl"
    /\ IF shacl = "violates"
       THEN /\ co_result' = [co_result EXCEPT ![c] = Outcome("shacl_violation", 0)]
            /\ co_pc' = [co_pc EXCEPT ![c] = "idle"]
            /\ co_frame' = [co_frame EXCEPT ![c] = NoFrame]
       ELSE /\ co_pc' = [co_pc EXCEPT ![c] = "insert"]
            /\ co_frame' = [co_frame EXCEPT ![c].shacl = shacl]
            /\ UNCHANGED co_result
    /\ UNCHANGED <<payments, shipments, ca_frame, users, products, orders, before>>

\* strings are sequences of one-character strings
DigitChars == <<"0", "1", "2", "3", "4", "5", "6", "7", "8", "9">>

\* str(n) of a number below ten
DigitChar(n) == DigitChars[n + 1]

\* the seconds of the clock at which orders are created
Seconds == 0 .. 9

\* datetime.now().strftime('%Y%m%d%H%M%S') at second `now` of one minute
Strftime(now) ==
    <<"2", "0", "2", "6", "1", "1", "0", "2", "0", "3", "3", "6", "0">>
        \o <<DigitChar(now)>>

\* f"{user_id:04d}" of a user_id below ten
Pad4(user_id) == <<"0", "0", "0", DigitChar(user_id)>>

\* order_no = f"ORD{datetime.now().strftime('%Y%m%d%H%M%S')}{user_id:04d}"
OrderNoOf(now, user_id) == <<"O", "R", "D">> \o Strftime(now) \o Pad4(user_id)

\* the store refuses a second row with an order number it already holds
OrderNoTaken(rows, order_no) == \E i \in DOMAIN rows : rows[i].order_no = order_no

\* OrderService.create_order storing the gross amount as the net amount
InsertOrderNetIsGross(user_id, items, discount_amount, now) ==
    LET total_amount == SumLines(items)
    IN  Append(orders,
               [order_id |-> Len(orders) + 1,
                order_no |-> OrderNoOf(now, user_id),
                created_at |-> now,
                user_id |-> user_id,
                total_amount |-> total_amount,
                discount_amount |-> discount_amount,
                final_amount |-> total_amount,
                order_status |-> "pending",
                payment_status |-> "unpaid",
                order_items |-> [i \in DOMAIN items |->
                    [product_id |-> items[i].product_id,
                     quantity |-> items[i].quantity,
                     unit_price |-> items[i].unit_price,
                     subtotal |-> items[i].quantity * items[i].unit_price]]])

\* OrderService.create_order: the order row and its order_items rows
InsertOrder(user_id, items, discount_amount, now) ==
    LET total_amount == SumLines(items)
    IN  Append(orders,
               [order_id |-> Len(orders) + 1,
                order_no |-> OrderNoOf(now, user_id),
                created_at |-> now,
                user_id |-> user_id,
                total_amount |-> total_amount,
                discount_amount |-> discount_amount,
                final_amount |-> total_amount - discount_amount,
                order_status |-> "pending",
                payment_status |-> "unpaid",
                order_items |-> [i \in DOMAIN items |->
                    [product_id |-> items[i].product_id,
                     quantity |-> items[i].quantity,
                     unit_price |-> items[i].unit_price,
                     subtotal |-> items[i].quantity * items[i].unit_price]]])

\* create_order: self.orders.create_order(...)
\* at second `now`, which is not before the second of the last order; the
\* insert fails and create_order raises when the order number is taken
CreateOrderInsert(c, now) ==
    /\ co_pc[c] = "insert"
    /\ now \in Seconds
    /\ \A i \in DOMAIN orders : orders[i].created_at <= now
    /\ IF OrderNoTaken(orders, OrderNoOf(now, co_frame[c].user_id))
       THEN /\ co_result' = [co_result EXCEPT ![c] = Outcome("order_no_taken", 0)]
            /\ co_pc' = [co_pc EXCEPT ![c] = "idle"]
            /\ co_frame' = [co_frame EXCEPT ![c] = NoFrame]
            /\ UNCHANGED orders
       ELSE /\ orders' = InsertOrder(co_frame[c].user_id,
                                     co_frame[c].prepared_items,
                                     co_frame[c].discount_amount, now)
            /\ co_pc' = [co_pc EXCEPT ![c] = "stock"]
            /\ UNCHANGED <<co_frame, co_result>>
    /\ UNCHANGED <<payments, shipments, ca_frame, users, products, before>>

\* create_order: one pass of `for entry in prepared_items: update_stock`
CreateOrderUpdateStock(c) ==
    /\ co_pc[c] = "stock"
    /\ LET f == co_frame[c]
           entry == f.prepared_items[f.next_item]
       IN  /\ products' = UpdateStock(products, entry.product_id, -entry.quantity)
           /\ co_frame' = [co_frame EXCEPT ![c].next_item = @ + 1]
           /\ co_pc' = [co_pc EXCEPT ![c] =
                           IF f.next_item = Len(f.prepared_items)
                           THEN "spent" ELSE "stock"]
    /\ UNCHANGED <<payments, shipments, ca_frame, users, orders, co_result, before>>

\* update_total_spent storing the amount in place of the sum
UpdateTotalSpentOverwrites(user_id, amount) ==
    IF user_id \in DOMAIN users
    THEN [users EXCEPT ![user_id].total_spent = amount]
    ELSE users

\* UserService.update_total_spent
UpdateTotalSpent(user_id, amount) ==
    IF user_id \in DOMAIN users
    THEN [users EXCEPT ![user_id].total_spent = @ + amount]
    ELSE users

\* create_order: self.users.update_total_spent(...)
CreateOrderUpdateSpent(c) ==
    /\ co_pc[c] = "spent"
    /\ users' = UpdateTotalSpent(co_frame[c].user_id, co_frame[c].total_payable)
    /\ co_pc' = [co_pc EXCEPT ![c] = "level"]
    /\ UNCHANGED <<payments, shipments, ca_frame, products, orders, co_frame, co_result, before>>

\* UserService.update_user_level
UpdateUserLevel(user_id, user_level) ==
    IF user_id \in DOMAIN users
    THEN [users EXCEPT ![user_id].user_level = user_level]
    ELSE users

\* create_order: `if upgrade_info["should_upgrade"]: update_user_level`, and
\* the return
CreateOrderUpdateLevel(c) ==
    /\ co_pc[c] = "level"
    /\ users' = IF co_frame[c].should_upgrade
                THEN UpdateUserLevel(co_frame[c].user_id, co_frame[c].inferred_level)
                ELSE users
    /\ co_pc' = [co_pc EXCEPT ![c] = "idle"]
    /\ co_result' = [co_result EXCEPT ![c] = Outcome("returned", 0)]
    /\ UNCHANGED <<payments, shipments, ca_frame, products, orders, co_frame, before>>

\* the users and request entries of the orders that are cancelled later
CancelUserIds == {1, 2}

CancelEntries == {e \in RequestEntries : e.product_id = 1 /\ e.quantity = 2}

\* the orders the other operations of this section are called on
CancelOrderIds == {1, 9}

\* elapsed time since an order was created, in minutes, at a cancel_order call
CancelElapsedMinutes == {60, 780, 1500}

\* the statuses written by the callers of update_order_status
WrittenStatuses == {"paid", "shipped"}

\* OrderService.update_order_status: the order's status is overwritten
UpdateOrderStatus(order_id, status) ==
    /\ order_id \in DOMAIN orders
    /\ orders[order_id].order_status # status
    /\ orders' = [orders EXCEPT ![order_id].order_status = status]
    /\ UNCHANGED <<payments, users, products, co_pc, co_frame, co_result, before, shipments,
                   ca_frame>>

\* ShipmentService.create_shipment: a shipment row for the order
CreateShipment(order_id) ==
    /\ order_id \in DOMAIN orders
    /\ order_id \notin shipments
    /\ shipments' = shipments \cup {order_id}
    /\ UNCHANGED <<payments, users, products, orders, co_pc, co_frame, co_result, before,
                   ca_frame>>

\* OrderService.cancel_order: only a pending or paid order is cancelled
CancelOrderRow(rows, order_id) ==
    IF order_id \in DOMAIN rows /\ rows[order_id].order_status \in {"pending", "paid"}
    THEN [rows EXCEPT ![order_id].order_status = "cancelled"]
    ELSE rows

\* cancel_order that goes on to the update whatever the policy says
CancelOrderEnterIgnoringPolicy(c, order_id, minutes) ==
    /\ co_pc[c] = "idle"
    /\ before' = [before EXCEPT ![c] = Store]
    /\ IF order_id \notin DOMAIN orders
       THEN /\ co_result' = [co_result EXCEPT ![c] = Outcome("order_missing", 0)]
            /\ ca_frame' = [ca_frame EXCEPT ![c] = NoCancelFrame]
            /\ UNCHANGED co_pc
       ELSE /\ ca_frame' = [ca_frame EXCEPT ![c] =
                   [NoCancelFrame EXCEPT
                       !.order_id = order_id,
                       !.order_status = orders[order_id].order_status,
                       !.minutes_since_order = minutes,
                       !.has_shipment = order_id \in shipments,
                       !.policy = InferCancellationPolicy(
                                      orders[order_id].order_status, minutes,
                                      order_id \in shipments)]]
            /\ co_pc' = [co_pc EXCEPT ![c] = "cancel"]
            /\ co_result' = [co_result EXCEPT ![c] = Outcome("none", 0)]
    /\ UNCHANGED <<payments, users, products, orders, co_frame, shipments>>

\* cancel_order up to the policy check: the order and its shipment are read,
\* the policy is inferred, and a denial is returned at once
CancelOrderEnter(c, order_id, minutes) ==
    /\ co_pc[c] = "idle"
    /\ before' = [before EXCEPT ![c] = Store]
    /\ IF order_id \notin DOMAIN orders
       THEN /\ co_result' = [co_result EXCEPT ![c] = Outcome("order_missing", 0)]
            /\ ca_frame' = [ca_frame EXCEPT ![c] = NoCancelFrame]
            /\ UNCHANGED co_pc
       ELSE LET policy == InferCancellationPolicy(orders[order_id].order_status,
                                                 minutes, order_id \in shipments)
                frame == [NoCancelFrame EXCEPT
                             !.order_id = order_id,
                             !.order_status = orders[order_id].order_status,
                             !.minutes_since_order = minutes,
                             !.has_shipment = order_id \in shipments,
                             !.policy = policy]
            IN  /\ ca_frame' = [ca_frame EXCEPT ![c] = frame]
                /\ IF policy.allowed
                   THEN /\ co_pc' = [co_pc EXCEPT ![c] = "cancel"]
                        /\ co_result' = [co_result EXCEPT ![c] = Outcome("none", 0)]
                   ELSE /\ co_result' = [co_result EXCEPT ![c] =
                               Outcome("cancel_returned", 0)]
                        /\ UNCHANGED co_pc
    /\ UNCHANGED <<payments, users, products, orders, co_frame, shipments>>

\* cancel_order after an allowing policy: the row is updated and the result
\* says whether the update happened
CancelOrderUpdate(c) ==
    /\ co_pc[c] = "cancel"
    /\ LET order_id == ca_frame[c].order_id
           cancelled == /\ order_id \in DOMAIN orders
                        /\ orders[order_id].order_status \in {"pending", "paid"}
       IN  /\ orders' = CancelOrderRow(orders, order_id)
           /\ ca_frame' = [ca_frame EXCEPT ![c] =
                  [@ EXCEPT !.cancelled = cancelled,
                            !.allowed = cancelled,
                            !.policy = [@ EXCEPT
                                !.allowed = cancelled,
                                !.reason = IF cancelled THEN @ ELSE "not_updated"]]]
    /\ co_pc' = [co_pc EXCEPT ![c] = "idle"]
    /\ co_result' = [co_result EXCEPT ![c] = Outcome("cancel_returned", 0)]
    /\ UNCHANGED <<payments, users, products, co_frame, before, shipments>>

\* _resolve_order_entity: str.upper() on the letters that occur
Upper(ch) ==
    IF ch = "o" THEN "O" ELSE IF ch = "r" THEN "R" ELSE IF ch = "d" THEN "D" ELSE ch

IsDigit(ch) == \E n \in DOMAIN DigitChars : DigitChars[n] = ch

_ORDER_NO_MIN_DIGITS == 15

\* str(int(digits)): the digits without their leading zeros
RECURSIVE IntOfDigits(_)
IntOfDigits(digits) ==
    IF Len(digits) > 1 /\ Head(digits) = "0"
    THEN IntOfDigits(Tail(digits))
    ELSE digits

\* OrderService.get_order_by_id with the id written in digits: the index of
\* the row, 0 for None
GetOrderById(rows, digits) ==
    LET found == {i \in DOMAIN rows :
                     <<DigitChar(rows[i].order_id)>> = IntOfDigits(digits)}
    IN  IF found = {} THEN 0 ELSE CHOOSE i \in found : TRUE

\* OrderService.get_order_by_no: the first row with that number, 0 for None
GetOrderByNo(rows, order_no) ==
    LET found == {i \in DOMAIN rows : rows[i].order_no = order_no}
    IN  IF found = {} THEN 0 ELSE CHOOSE i \in found : \A j \in found : i <= j

\* _resolve_order_entity taking only an identifier that starts with ORD for
\* an order number
ResolveOrderEntityPrefixOnly(rows, identifier) ==
    LET normalized == [i \in DOMAIN identifier |-> Upper(identifier[i])]
        digits == SelectSeq(normalized, IsDigit)
        by_id == IF digits # <<>> THEN GetOrderById(rows, digits) ELSE 0
    IN  IF identifier = <<>> THEN 0
        ELSE IF by_id # 0 THEN by_id
        ELSE IF Len(normalized) >= 3 /\ SubSeq(normalized, 1, 3) = <<"O", "R", "D">>
        THEN GetOrderByNo(rows, normalized)
        ELSE 0

\* _resolve_order_entity: the index of the order an identifier stands for,
\* 0 when it raises ValueError
ResolveOrderEntity(rows, identifier) ==
    LET normalized == [i \in DOMAIN identifier |-> Upper(identifier[i])]
        digits == SelectSeq(normalized, IsDigit)
        by_id == IF digits # <<>> THEN GetOrderById(rows, digits) ELSE 0
        order_no_candidate ==
            IF Len(normalized) >= 3 /\ SubSeq(normalized, 1, 3) = <<"O", "R", "D">>
            THEN normalized
            ELSE IF digits # <<>> /\ Len(digits) >= _ORDER_NO_MIN_DIGITS
            THEN <<"O", "R", "D">> \o digits
            ELSE <<>>
    IN  IF identifier = <<>> THEN 0
        ELSE IF by_id # 0 THEN by_id
        ELSE IF order_no_candidate # <<>> THEN GetOrderByNo(rows, order_no_candidate)
        ELSE 0

\* the identifiers get_order_detail is called with: for each stored order its
\* id, its order number and the digits of its order number, then an id and
\* a number no order has, and the empty string
Identifiers ==
    UNION {{<<DigitChar(orders[i].order_id)>>, orders[i].order_no,
            SubSeq(orders[i].order_no, 4, Len(orders[i].order_no))} :
           i \in DOMAIN orders}
    \cup {<<"9">>, OrderNoOf(9, 9), <<>>}

\* get_order_detail: the order, its user and its shipment
GetOrderDetail(c, identifier) ==
    /\ co_pc[c] = "idle"
    /\ LET found == ResolveOrderEntity(orders, identifier)
       IN  co_result' = [co_result EXCEPT ![c] =
               IF found = 0
               THEN [status |-> "order_missing", line |-> 0, identifier |-> identifier]
               ELSE [status |-> "detail_returned", line |-> 0,
                     identifier |-> identifier,
                     order |-> orders[found],
                     user |-> users[orders[found].user_id],
                     shipment |-> orders[found].order_id \in shipments]]
    /\ UNCHANGED <<payments, users, products, orders, co_pc, co_frame, before, shipments,
                   ca_frame>>

\* the amounts process_payment is called with
PaymentAmounts == {100}

\* PaymentService.create_payment: the payment row
PaymentRow(order_id, amount) ==
    [payment_id |-> Len(payments) + 1, order_id |-> order_id,
     payment_amount |-> amount, payment_status |-> "pending"]

\* process_payment marking the order itself as paid
ProcessPaymentSettingOrderStatus(c, order_id, amount) ==
    /\ co_pc[c] = "idle"
    /\ Len(payments) < MaxPayments
    /\ IF order_id \notin DOMAIN orders
       THEN /\ co_result' = [co_result EXCEPT ![c] = Outcome("order_missing", 0)]
            /\ UNCHANGED <<orders, payments>>
       ELSE /\ payments' = Append(payments, PaymentRow(order_id, amount))
            /\ orders' = [orders EXCEPT ![order_id].payment_status = "paid",
                                        ![order_id].order_status = "paid"]
            /\ co_result' = [co_result EXCEPT ![c] =
                   [status |-> "payment_returned", line |-> 0,
                    payment |-> PaymentRow(order_id, amount)]]
    /\ UNCHANGED <<users, products, co_pc, co_frame, before, shipments, ca_frame>>

\* process_payment: the order is resolved, a payment row is created and the
\* order's payment_status is set to paid
ProcessPayment(c, order_id, amount) ==
    /\ co_pc[c] = "idle"
    /\ Len(payments) < MaxPayments
    /\ IF order_id \notin DOMAIN orders
       THEN /\ co_result' = [co_result EXCEPT ![c] = Outcome("order_missing", 0)]
            /\ UNCHANGED <<orders, payments>>
       ELSE /\ payments' = Append(payments, PaymentRow(order_id, amount))
            /\ orders' = [orders EXCEPT ![order_id].payment_status = "paid"]
            /\ co_result' = [co_result EXCEPT ![c] =
                   [status |-> "payment_returned", line |-> 0,
                    payment |-> PaymentRow(order_id, amount)]]
    /\ UNCHANGED <<users, products, co_pc, co_frame, before, shipments, ca_frame>>

(***************************************************************************)
(* Part C.  The policy functions of EcommerceOntologyService called on     *)
(* their own.                                                              *)
(***************************************************************************)
VARIABLES
    policy_call \* the last call of a policy function: name, arguments, result

policy_vars == <<policy_call>>

\* no policy function has been called
PolicyInit == policy_call = [fn |-> "none"]

\* tiers a caller may pass (Enterprise: a tier add_bulk_users.py seeds and
\* no rule names)
Tiers == {"Regular", "VIP", "SVIP", "Enterprise"}

\* order amounts a caller may pass
Amounts == {0, 100, 400, 500, 4900, 5000, 9900, 10000, 12000}

\* cumulative spends a caller may pass
Spends == {-100, 0, 4999, 5000, 9999, 10000, 12000}

\* order statuses a caller may pass
OrderStatuses ==
    {"pending", "paid", "shipped", "delivered", "cancelled", "returned", "PAID", ""}

\* elapsed times a caller may pass, in minutes
ElapsedMinutes == {-60, 0, 719, 720, 721, 1380, 1439, 1440, 1441, 1500}

\* infer_user_level(total_spent)
CallInferUserLevel(total_spent) ==
    /\ policy_call' = [fn |-> "infer_user_level", total_spent |-> total_spent,
                       result |-> InferUserLevel(total_spent)]

\* infer_discount(user_level, order_amount, is_first_order)
CallInferDiscount(user_level, order_amount, is_first_order) ==
    /\ policy_call' = [fn |-> "infer_discount", user_level |-> user_level,
                       order_amount |-> order_amount,
                       is_first_order |-> is_first_order,
                       result |-> InferDiscount(user_level, order_amount,
                                                is_first_order)]

\* infer_shipping(user_level, order_amount, is_remote_area)
CallInferShipping(user_level, order_amount, is_remote_area) ==
    /\ policy_call' = [fn |-> "infer_shipping", user_level |-> user_level,
                       order_amount |-> order_amount,
                       is_remote_area |-> is_remote_area,
                       result |-> InferShipping(user_level, order_amount,
                                                is_remote_area)]

\* infer_order_details(user_data, order_data)
CallInferOrderDetails(user_data, order_amount, is_remote) ==
    /\ policy_call' = [fn |-> "infer_order_details", user_data |-> user_data,
                       order_amount |-> order_amount, is_remote |-> is_remote,
                       result |-> InferOrderDetails(user_data, order_amount,
                                                    is_remote)]

\* infer_cancellation_policy(order_status, hours_since_created, has_shipment)
CallInferCancellationPolicy(order_status, minutes_since_created, has_shipment) ==
    /\ policy_call' = [fn |-> "infer_cancellation_policy",
                       order_status |-> order_status,
                       minutes_since_created |-> minutes_since_created,
                       has_shipment |-> has_shipment,
                       result |-> InferCancellationPolicy(order_status,
                                                          minutes_since_created,
                                                          has_shipment)]

vars == <<agent_vars, commerce_vars, policy_vars>>

\* the agent as constructed; the service is not called
Init ==
    /\ AgentInit
    /\ CommerceInit
    /\ PolicyInit

AgentStep ==
    \/ \E text \in UserInputs : StartTurn(text)
    \/ GateEval
    \/ ApplyPre
    \/ \E calls \in {<<>>} \cup SeqsUpTo(LlmCalls, MaxToolCalls - Len(tool_log)) :
          LlmReply(ReplyContent(iteration), calls)
    \/ LlmRaise
    \/ ApplyPost
    \/ DispatchTool
    \/ \E new_stage \in InferStage : FinishTurn(new_stage)

Next == AgentStep /\ UNCHANGED <<commerce_vars, policy_vars>>

Spec == Init /\ [][Next]_vars

\* the service with one caller; the agent stays as constructed
CommerceSpecInit ==
    /\ AgentInit
    /\ stage = "browsing"
    /\ CommerceInit
    /\ PolicyInit

\* calls of create_order by one caller, one after the other
CommerceNext ==
    /\ \/ \E user_id \in RequestUserIds, is_remote \in BOOLEAN,
             items_empty \in BOOLEAN :
             CreateOrderEnter(1, user_id, is_remote, items_empty)
       \/ \E entry \in RequestEntries : CreateOrderEntry(1, entry)
       \/ CreateOrderInfer(1)
       \/ \E shacl \in ShaclOutcomes : CreateOrderShacl(1, shacl)
       \/ CreateOrderInsert(1, Len(orders))
       \/ CreateOrderUpdateStock(1)
       \/ CreateOrderUpdateSpent(1)
       \/ CreateOrderUpdateLevel(1)
    /\ UNCHANGED <<agent_vars, policy_vars>>

CommerceSpec == CommerceSpecInit /\ [][CommerceNext]_vars

\* calls of create_order and cancel_order by one caller, one after the other;
\* between the calls orders are paid for and shipped
CancelNext ==
    /\ \/ \E user_id \in CancelUserIds : CreateOrderEnter(1, user_id, FALSE, FALSE)
       \/ \E entry \in CancelEntries : CreateOrderEntry(1, entry)
       \/ CreateOrderInfer(1)
       \/ CreateOrderShacl(1, "conforms")
       \/ CreateOrderInsert(1, Len(orders))
       \/ CreateOrderUpdateStock(1)
       \/ CreateOrderUpdateSpent(1)
       \/ CreateOrderUpdateLevel(1)
       \/ \E order_id \in CancelOrderIds, minutes \in CancelElapsedMinutes :
             CancelOrderEnter(1, order_id, minutes)
       \/ CancelOrderUpdate(1)
       \/ \E order_id \in CancelOrderIds, status \in WrittenStatuses :
             co_pc[1] = "idle" /\ UpdateOrderStatus(order_id, status)
       \/ \E order_id \in CancelOrderIds :
             co_pc[1] = "idle" /\ CreateShipment(order_id)
    /\ UNCHANGED <<agent_vars, policy_vars>>

CancelSpec == CommerceSpecInit /\ [][CancelNext]_vars

\* as CancelNext, with the shipments created and the statuses written by
\* other callers at any time, also between the steps of a cancel_order call
CancelRaceNext ==
    /\ \/ \E user_id \in CancelUserIds : CreateOrderEnter(1, user_id, FALSE, FALSE)
       \/ \E entry \in CancelEntries : CreateOrderEntry(1, entry)
       \/ CreateOrderInfer(1)
       \/ CreateOrderShacl(1, "conforms")
       \/ CreateOrderInsert(1, Len(orders))
       \/ CreateOrderUpdateStock(1)
       \/ CreateOrderUpdateSpent(1)
       \/ CreateOrderUpdateLevel(1)
       \/ \E order_id \in CancelOrderIds, minutes \in CancelElapsedMinutes :
             CancelOrderEnter(1, order_id, minutes)
       \/ CancelOrderUpdate(1)
       \/ \E order_id \in CancelOrderIds, status \in WrittenStatuses :
             UpdateOrderStatus(order_id, status)
       \/ \E order_id \in CancelOrderIds : CreateShipment(order_id)
    /\ UNCHANGED <<agent_vars, policy_vars>>

CancelRaceSpec == CommerceSpecInit /\ [][CancelRaceNext]_vars

\* calls of create_order by two callers at once, their steps interleaved
CreateRaceNext ==
    /\ \/ \E c \in Callers, user_id \in CancelUserIds :
             CreateOrderEnter(c, user_id, FALSE, FALSE)
       \/ \E c \in Callers, entry \in CancelEntries : CreateOrderEntry(c, entry)
       \/ \E c \in Callers : CreateOrderInfer(c)
       \/ \E c \in Callers : CreateOrderShacl(c, "conforms")
       \/ \E c \in Callers : CreateOrderInsert(c, Len(orders))
       \/ \E c \in Callers : CreateOrderUpdateStock(c)
       \/ \E c \in Callers : CreateOrderUpdateSpent(c)
       \/ \E c \in Callers : CreateOrderUpdateLevel(c)
    /\ UNCHANGED <<agent_vars, policy_vars>>

CreateRaceSpec == CommerceSpecInit /\ [][CreateRaceNext]_vars

\* calls of create_order, process_payment and cancel_order by one caller,
\* one after the other
PaymentNext ==
    /\ \/ \E user_id \in CancelUserIds : CreateOrderEnter(1, user_id, FALSE, FALSE)
       \/ \E entry \in CancelEntries : CreateOrderEntry(1, entry)
       \/ CreateOrderInfer(1)
       \/ CreateOrderShacl(1, "conforms")
       \/ CreateOrderInsert(1, Len(orders))
       \/ CreateOrderUpdateStock(1)
       \/ CreateOrderUpdateSpent(1)
       \/ CreateOrderUpdateLevel(1)
       \/ \E order_id \in CancelOrderIds, amount \in PaymentAmounts :
             ProcessPayment(1, order_id, amount)
       \/ \E order_id \in CancelOrderIds, minutes \in CancelElapsedMinutes :
             CancelOrderEnter(1, order_id, minutes)
       \/ CancelOrderUpdate(1)
    /\ UNCHANGED <<agent_vars, policy_vars>>

PaymentSpec == CommerceSpecInit /\ [][PaymentNext]_vars

\* the users and request entries of the orders that are looked up
LookupEntries ==
    {e \in RequestEntries : \/ e.product_id = 1 /\ e.quantity = 2
                            \/ e.product_id = 2 /\ e.unit_price = Price(100)}

\* calls of create_order and get_order_detail by one caller, one after the
\* other, the orders in the same second or in later ones
LookupNext ==
    /\ \/ \E user_id \in CancelUserIds : CreateOrderEnter(1, user_id, FALSE, FALSE)
       \/ \E entry \in LookupEntries : CreateOrderEntry(1, entry)
       \/ CreateOrderInfer(1)
       \/ CreateOrderShacl(1, "conforms")
       \/ \E now \in 0 .. Len(orders) : CreateOrderInsert(1, now)
       \/ CreateOrderUpdateStock(1)
       \/ CreateOrderUpdateSpent(1)
       \/ CreateOrderUpdateLevel(1)
       \/ \E identifier \in Identifiers : GetOrderDetail(1, identifier)
    /\ UNCHANGED <<agent_vars, policy_vars>>

LookupSpec == CommerceSpecInit /\ [][LookupNext]_vars

\* the policy functions called by a caller of their own, any number of times
PolicyNext ==
    /\ \/ \E total_spent \in Spends : CallInferUserLevel(total_spent)
       \/ \E user_level \in Tiers, order_amount \in Amounts,
             is_first_order \in BOOLEAN :
             CallInferDiscount(user_level, order_amount, is_first_order)
       \/ \E user_level \in Tiers, order_amount \in Amounts,
             is_remote_area \in BOOLEAN :
             CallInferShipping(user_level, order_amount, is_remote_area)
       \/ \E user_level \in {"Regular", "VIP"}, total_spent \in {0, 5000, 10000},
             order_count \in {0, 1}, order_amount \in Amounts, is_remote \in BOOLEAN :
             CallInferOrderDetails([user_level |-> user_level,
                                    total_spent |-> total_spent,
                                    order_count |-> order_count],
                                   order_amount, is_remote)
       \/ \E order_status \in OrderStatuses, minutes \in ElapsedMinutes,
             has_shipment \in BOOLEAN :
             CallInferCancellationPolicy(order_status, minutes, has_shipment)
    /\ UNCHANGED <<agent_vars, commerce_vars>>

PolicySpec == CommerceSpecInit /\ [][PolicyNext]_vars

(***************************************************************************)
(* Properties of LangChainAgent                                            *)
(***************************************************************************)
\* the last element of a non-empty sequence
Last(seq) == seq[Len(seq)]

\* number of occurrences of x in seq
Count(seq, x) == Cardinality({i \in DOMAIN seq : seq[i] = x})

\* the log holds an order creation, and a validation call after the last one
ValidatedAfterLastCreate(log) ==
    \E c \in DOMAIN log :
        /\ log[c].tool = "commerce_create_order"
        /\ \A j \in DOMAIN log : j > c => log[j].tool # "commerce_create_order"
        /\ \E v \in DOMAIN log : v > c /\ log[v].tool = "ontology_validate_order"

\* the log holds a validation call with no order creation after it
ValidationIsLatest(log) ==
    \E v \in DOMAIN log :
        /\ log[v].tool = "ontology_validate_order"
        /\ \A j \in DOMAIN log : j > v => log[j].tool # "commerce_create_order"

\* the user text holds a trigger keyword in any letter case
MentionsValidation(text) ==
    \/ \E i \in DOMAIN text :
          text[i] \in {"validate", "VALIDATE", "shacl", "SHACL", "jiaoyan"}
    \/ \E i \in DOMAIN text :
          i < Len(text) /\ text[i] = "yanzheng" /\ text[i + 1] = "dingdan"

\* the gate has just been evaluated and its answer is in requires_validation
GateEvaluated == pc \in {"apply_pre", "apply_post"}

\* the loop has just left through the final-answer branch
LeftByFinalAnswer == pc = "after_loop" /\ Last(execution_log) = "final_answer"

\* C1: the loop leaves through the final-answer branch only when no
\* validation requirement is pending: _pending_validation is None and the
\* gate, evaluated on the state in which the loop is left, answers false.
C1_FinalOnlyWhenNoRequirement ==
    LeftByFinalAnswer =>
        /\ pending_validation.none
        /\ ~ShouldRequireValidation(pending_validation, stage, user_input,
                                    tool_log).requires
        /\ final_answer = Last(history)

\* C1 witness: a final answer accepted in a turn in which an order was
\* created and then validated
C1_Witness ==
    /\ LeftByFinalAnswer
    /\ ValidatedAfterLastCreate(tool_log)

\* C2 (as claimed): within a turn, once ontology_validate_order has been
\* dispatched with no commerce_create_order after it, the requirement is
\* cleared and stays cleared, and a reply without tool calls is then accepted
\* as the final answer, whatever had triggered the requirement.
C2_ClearedAfterValidation ==
    (pc # "idle" /\ ValidationIsLatest(tool_log)) =>
        /\ pending_validation.none
        /\ (pc = "apply_post" => ~requires_validation)

\* C3, state part: a turn asks the model at most max_iterations times; when
\* the budget runs out the turn returns without error, with the text of the
\* last assistant message as final_answer and the marker in the plan.
C3_BudgetState ==
    /\ Count(execution_log, "llm_input") <= MaxIterations
    /\ Len(history) <= MaxIterations
    /\ (pc = "after_loop" /\ Last(execution_log) = "max_iterations") =>
          /\ Len(history) = MaxIterations
          /\ final_answer = Last(history)
          /\ Last(plan_lines) = MaxIterationsMarker
    /\ (result.returned /\ ~result.error
          /\ execution_log[Len(execution_log) - 2] = "max_iterations") =>
          /\ result.final_answer = Last(history)
          /\ Last(result.plan) = MaxIterationsMarker

\* position of run within one iteration, counted down
PcRank ==
    CASE pc = "gate_pre" -> 6
      [] pc = "apply_pre" -> 5
      [] pc = "llm" -> 4
      [] pc = "gate_post" -> 3
      [] pc = "apply_post" -> 2
      [] pc = "dispatch" -> 1
      [] OTHER -> 0

\* what is left of a turn: iterations, position, calls to dispatch
TurnMeasure ==
    (MaxIterations - iteration) * 100 + PcRank * 10 + Len(tool_calls)

\* C3: every turn terminates after at most max_iterations requests to the
\* model whatever the model answers: every step of a running turn lowers
\* what is left of it or returns, a running turn can always take a step, and
\* on exhaustion the turn returns the last assistant text with the marker.
C3_TurnTerminates ==
    /\ []C3_BudgetState
    /\ [](pc # "idle" => ENABLED Next)
    /\ [][pc # "idle" => (pc' = "idle" \/ TurnMeasure' < TurnMeasure)]_vars

\* C3 witness: a turn that called tools in every iteration has returned with
\* the marker
C3_Witness ==
    /\ result.returned
    /\ ~result.error
    /\ Len(result.plan) > 0
    /\ Last(result.plan) = MaxIterationsMarker
    /\ \A i \in 1..MaxIterations : \E k \in DOMAIN tool_log : tool_log[k].iteration = i

\* C4: a pending requirement is cleared by no step other than the dispatch
\* of an ontology_validate_order call; it survives iterations, turns that end
\* by error or by exhaustion, and the start of later turns.
C4_PendingClearedOnlyByValidation ==
    [][ (~pending_validation.none /\ pending_validation'.none) =>
            /\ pc = "dispatch"
            /\ Head(tool_calls).name = "ontology_validate_order" ]_vars

\* C4 witness: a later turn starts while the requirement set in an earlier
\* turn is still pending
C4_Witness ==
    /\ pc = "gate_pre"
    /\ iteration = 1
    /\ ~pending_validation.none

\* the log holds an order creation with no validation call after the last one
UnvalidatedCreate(log) ==
    \E c \in DOMAIN log :
        /\ log[c].tool = "commerce_create_order"
        /\ \A j \in DOMAIN log :
              j > c => log[j].tool \notin {"commerce_create_order",
                                           "ontology_validate_order"}

\* C5 (as claimed): the gate answers true whenever a requirement is pending,
\* the user text holds a trigger keyword, the stage is checkout, or the most
\* recent order creation has no validation call after it.
C5_TrueOnAnyTrigger ==
    (GateEvaluated /\ (\/ Truthy(pending_validation)
                       \/ MentionsValidation(user_input)
                       \/ stage = "checkout"
                       \/ UnvalidatedCreate(tool_log))) => requires_validation

\* C5 (amended): the gate answers true whenever a requirement is pending, or
\* the tool log holds no validation call after its most recent order creation
\* and the user text holds a trigger keyword (in any letter case), the stage
\* is checkout, or the log holds an order creation; the payload of a true
\* answer carries the keys data and format, format being turtle by default.
C5_TrueOnTriggerUnlessValidated ==
    GateEvaluated =>
        /\ (\/ Truthy(pending_validation)
            \/ /\ ~ValidatedAfterLastCreate(tool_log)
               /\ \/ MentionsValidation(user_input)
                  \/ stage = "checkout"
                  \/ UnvalidatedCreate(tool_log)) => requires_validation
        /\ requires_validation =>
              /\ ~payload_hint.none
              /\ {"data", "format"} \subseteq Keys(payload_hint.d)
              /\ Get(payload_hint.d, "format") = "turtle"

\* C5 witness: nothing pending, no keyword, not in checkout; the gate answers
\* true for an order creation not yet validated, with that call's arguments
\* as payload
C5_Witness ==
    /\ GateEvaluated
    /\ pending_validation.none
    /\ ~MentionsValidation(user_input)
    /\ stage # "checkout"
    /\ UnvalidatedCreate(tool_log)
    /\ requires_validation
    /\ "user_id" \in Keys(payload_hint.d)

\* C6: with no requirement pending, a tool log with a validation call after
\* its most recent order creation makes the gate answer (false, None).
C6_FalseOnceValidated ==
    (GateEvaluated /\ ~Truthy(pending_validation)
        /\ ValidatedAfterLastCreate(tool_log)) =>
            /\ ~requires_validation
            /\ payload_hint = NoneDict

\* C6 witness: the answer is false although the user text holds a keyword
C6_Witness ==
    /\ GateEvaluated
    /\ pending_validation.none
    /\ ValidatedAfterLastCreate(tool_log)
    /\ MentionsValidation(user_input)
    /\ ~requires_validation

\* the reminders in the history that were appended in iteration i
RemindersOf(i) ==
    {k \in DOMAIN messages : messages[k].kind = "reminder" /\ messages[k].iteration = i}

\* C7: injecting again with the same iteration index appends nothing,
\* injecting with another index appends exactly one system message, and the
\* history of a turn holds at most one reminder per iteration.
C7_OneReminderPerIteration ==
    /\ \A i \in 1..MaxIterations : Cardinality(RemindersOf(i)) <= 1
    /\ GateEvaluated =>
          LET r1 == InjectValidationReminder(messages, validation_issued_turn,
                                             DefaultPayload, iteration)
              r2 == InjectValidationReminder(r1.messages, r1.issued,
                                             DefaultPayload, iteration)
              r3 == InjectValidationReminder(r1.messages, r1.issued,
                                             DefaultPayload, iteration + 1)
          IN  /\ r2.messages = r1.messages
              /\ Len(r3.messages) = Len(r1.messages) + 1
              /\ Last(r3.messages).role = "system"

\* C7 witness: the gate asked for validation before the request and again
\* after a reply without tool calls, and the iteration has its reminder
C7_Witness ==
    /\ pc = "gate_pre"
    /\ iteration > 1
    /\ execution_log[Len(execution_log) - 1] = "validation_guard"
    /\ Cardinality(RemindersOf(iteration - 1)) = 1

\* C8: a failed model request ends the turn at once: nothing is asked of the
\* model or dispatched after it, and the result carries the error field and
\* the tool log gathered so far.
C8_ModelErrorEndsTurn ==
    /\ \A i \in DOMAIN execution_log :
          execution_log[i] = "llm_error" =>
              /\ i = Len(execution_log) - 1
              /\ Last(execution_log) = "execution_complete"
              /\ pc = "idle"
              /\ result.returned
              /\ result.error
              /\ result.tool_log = tool_log
              /\ Count(execution_log, "llm_input") = Len(history) + 1
    /\ (result.returned /\ result.error) => Count(execution_log, "llm_error") = 1

\* C8 witness: the model request failed after tools had been dispatched
C8_Witness ==
    /\ result.returned
    /\ result.error
    /\ Len(result.tool_log) > 0

\* C9 (as claimed): every observation handed to the loop is an envelope with
\* the tool info and exactly one of result and error, and the record of the
\* call is followed by the next step of the loop.
C9_ObservationIsEnvelope ==
    \A k \in DOMAIN tool_log :
        LET o == tool_log[k].observation
        IN  /\ o.json
            /\ "_tool_info" \in o.keys
            /\ ("result" \in o.keys) # ("error" \in o.keys)

\* the reasons for which create_order rejects a request
Rejections ==
    {"items_empty", "user_missing", "quantity_not_positive", "product_missing",
     "stock_insufficient", "price_invalid", "shacl_violation"}

\* C10: when create_order has rejected a request, whatever the reason and
\* whatever the position of the offending entry, every product's stock, the
\* orders with their items, and every user's spend and tier are as they were
\* before the call.
C10_RejectionWritesNothing ==
    co_result[1].status \in Rejections => Store = before[1]

\* a request whose second entry asks for more than the stock is rejected
\* after an earlier order was written
C10_Witness ==
    /\ co_result[1].status = "stock_insufficient"
    /\ co_result[1].line = 2
    /\ Len(orders) >= 1
    /\ Store = before[1]
\* the positions of create_order at which the order row has been written
AfterInsert == {"stock", "spent", "level"}

\* C11: whenever create_order has written the order row (and goes on to the
\* stock and the spend), the structural check of that order was run and
\* answered conforms = true.
C11_CommitsOnlyOnPass ==
    co_pc[1] \in AfterInsert => co_frame[1].shacl = "conforms"
\* gross amount of a list of order items
RECURSIVE GrossOf(_)
GrossOf(order_items) ==
    IF order_items = <<>> THEN 0
    ELSE Head(order_items).quantity * Head(order_items).unit_price
         + GrossOf(Tail(order_items))

\* C12: for every persisted order, net = gross - discount, gross is the sum
\* of quantity * unit_price over its items, and every item's subtotal is its
\* quantity * unit_price.
C12_AmountsAddUp ==
    \A i \in DOMAIN orders :
        /\ orders[i].final_amount = orders[i].total_amount - orders[i].discount_amount
        /\ orders[i].total_amount = GrossOf(orders[i].order_items)
        /\ \A j \in DOMAIN orders[i].order_items :
              orders[i].order_items[j].subtotal =
                  orders[i].order_items[j].quantity * orders[i].order_items[j].unit_price

\* a call has returned after persisting a discounted order of two lines
C12_Witness ==
    /\ co_result[1].status = "returned"
    /\ \E i \in DOMAIN orders :
          /\ Len(orders[i].order_items) = 2
          /\ orders[i].discount_amount > 0
          /\ orders[i].final_amount < orders[i].total_amount
\* total quantity a list of lines asks of one product
RECURSIVE QuantityOf(_, _)
QuantityOf(lines, product_id) ==
    IF lines = <<>> THEN 0
    ELSE (IF Head(lines).product_id = product_id THEN Head(lines).quantity ELSE 0)
         + QuantityOf(Tail(lines), product_id)

\* C13: after a successful create_order every product's stock is lower by
\* the quantities of the order's lines for it (products not ordered keep
\* theirs), the user's spend is higher by the discounted amount plus the
\* shipping cost, exactly one new order exists, pending and with one item per
\* line, and the other users are as before.
C13_SuccessfulOrderEffects ==
    co_result[1].status = "returned" =>
        LET f == co_frame[1]
            b == before[1]
            o == orders[Len(orders)]
        IN  /\ Len(orders) = Len(b.orders) + 1
            /\ SubSeq(orders, 1, Len(b.orders)) = b.orders
            /\ o.order_status = "pending"
            /\ o.user_id = f.user_id
            /\ Len(o.order_items) = Len(f.prepared_items)
            /\ \A j \in DOMAIN o.order_items :
                  /\ o.order_items[j].product_id = f.prepared_items[j].product_id
                  /\ o.order_items[j].quantity = f.prepared_items[j].quantity
            /\ \A p \in DOMAIN products :
                  /\ products[p].stock_quantity =
                        b.products[p].stock_quantity - QuantityOf(f.prepared_items, p)
                  /\ products[p].price = b.products[p].price
            /\ users[f.user_id].total_spent =
                  b.users[f.user_id].total_spent + o.final_amount + f.shipping_cost
            /\ \A u \in DOMAIN users : u # f.user_id => users[u] = b.users[u]

\* a second order of two lines by a user with earlier spend has returned,
\* shipping cost included in the spend
C13_Witness ==
    /\ co_result[1].status = "returned"
    /\ Len(orders) = 2
    /\ Len(co_frame[1].prepared_items) = 2
    /\ co_frame[1].shipping_cost > 0
    /\ before[1].users[co_frame[1].user_id].total_spent > 0
    /\ users[co_frame[1].user_id].total_spent
          > before[1].users[co_frame[1].user_id].total_spent
\* rank of a tier in the order Regular < VIP < SVIP
TierRank(user_level) ==
    IF user_level = "SVIP" THEN 3 ELSE IF user_level = "VIP" THEN 2 ELSE 1

\* C14: create_order never lowers a user's stored tier: after a successful
\* call every user's tier ranks at least as high as before the call.
C14_TierNeverLowered ==
    co_result[1].status = "returned" =>
        \A u \in DOMAIN users :
            TierRank(users[u].user_level) >= TierRank(before[1].users[u].user_level)
\* C15: no step lowers a user's cumulative spend.
C15_SpendNeverDecreases ==
    [][\A u \in DOMAIN users : users'[u].total_spent >= users[u].total_spent]_vars
\* the rates, in percent, of the discounts that apply one by one
ApplicableRates(user_level, order_amount, is_first_order) ==
    (IF user_level = "SVIP" THEN {90} ELSE {})
    \cup (IF user_level = "VIP" THEN {95} ELSE {})
    \cup (IF order_amount >= 10000 THEN {90} ELSE {})
    \cup (IF order_amount >= 5000 THEN {95} ELSE {})
    \cup (IF is_first_order THEN {98} ELSE {})

\* least element of a non-empty set of numbers
Min(S) == CHOOSE x \in S : \A y \in S : x <= y

\* C16: infer_discount returns the lowest of the rates that apply one by one
\* and applies that one rate alone; when none applies the rate is 1.0 and the
\* discount amount 0.
C16_LowestSingleRate ==
    policy_call.fn = "infer_discount" =>
        LET rates == ApplicableRates(policy_call.user_level, policy_call.order_amount,
                                     policy_call.is_first_order)
            r == policy_call.result
        IN  IF rates = {}
            THEN /\ r.discount_rate = 100
                 /\ r.discount_amount = 0
                 /\ r.final_amount = policy_call.order_amount
            ELSE /\ r.discount_rate = Min(rates)
                 /\ r.final_amount * 100 = policy_call.order_amount * Min(rates)
                 /\ r.discount_amount = policy_call.order_amount - r.final_amount

\* tier VIP with amount 12000 on a first order: three discounts apply, the
\* rate is 0.90
C16_Witness ==
    /\ policy_call.fn = "infer_discount"
    /\ policy_call.user_level = "VIP"
    /\ policy_call.order_amount = 12000
    /\ policy_call.is_first_order
    /\ policy_call.result.discount_rate = 90
    /\ policy_call.result.final_amount = 10800

\* C17: infer_user_level gives SVIP from 10000, VIP from 5000 up to 10000
\* excluded, Regular below 5000.
C17_TierThresholds ==
    policy_call.fn = "infer_user_level" =>
        policy_call.result =
            (IF policy_call.total_spent >= 10000 THEN "SVIP"
             ELSE IF policy_call.total_spent >= 5000 THEN "VIP"
             ELSE "Regular")

\* 5000 gives VIP
C17_Witness ==
    /\ policy_call.fn = "infer_user_level"
    /\ policy_call.total_spent = 5000
    /\ policy_call.result = "VIP"

\* the shipping cost the rule gives a tier, an amount and an address
ShippingCostByRule(user_level, amount, is_remote) ==
    (IF user_level \in {"SVIP", "VIP"} \/ amount >= 500 THEN 0 ELSE 15)
    + (IF is_remote /\ user_level # "SVIP" THEN 30 ELSE 0)

\* the delivery type the rule gives a tier
ShippingTypeByRule(user_level) ==
    IF user_level = "SVIP" THEN "NextDayDelivery" ELSE "Standard"

\* C18: infer_shipping gives SVIP next-day delivery at cost 0 whatever the
\* address, VIP standard delivery free, any other tier standard delivery free
\* from 500 and at 15 below, plus 30 for a remote address of a tier other
\* than SVIP; infer_order_details applies it to the re-inferred tier and the
\* amount after discount.
C18_ShippingRule ==
    /\ policy_call.fn = "infer_shipping" =>
          /\ policy_call.result.shipping_cost =
                ShippingCostByRule(policy_call.user_level, policy_call.order_amount,
                                   policy_call.is_remote_area)
          /\ policy_call.result.shipping_type =
                ShippingTypeByRule(policy_call.user_level)
          /\ policy_call.result.free_shipping =
                (policy_call.result.shipping_cost = 0)
    /\ policy_call.fn = "infer_order_details" =>
          LET r == policy_call.result
              tier == IF policy_call.user_data.total_spent >= 10000 THEN "SVIP"
                      ELSE IF policy_call.user_data.total_spent >= 5000 THEN "VIP"
                      ELSE "Regular"
          IN  /\ r.shipping_inference.shipping_cost =
                    ShippingCostByRule(tier, r.discount_inference.final_amount,
                                       policy_call.is_remote)
              /\ r.shipping_inference.shipping_type = ShippingTypeByRule(tier)

\* a first order of gross 500 by a Regular user: 490 after discount, so the
\* flat fee is charged
C18_Witness ==
    /\ policy_call.fn = "infer_order_details"
    /\ policy_call.order_amount = 500
    /\ policy_call.result.discount_inference.final_amount = 490
    /\ policy_call.result.inferred_level = "Regular"
    /\ ~policy_call.is_remote
    /\ policy_call.result.shipping_inference.shipping_cost = 15

\* the statuses the cancellation rule is stated for
ClaimedStatuses ==
    {"pending", "paid", "shipped", "delivered", "cancelled", "returned"}

\* C19: for each of the six statuses, every elapsed time and shipment flag,
\* infer_cancellation_policy allows exactly when there is no shipment and the
\* order is pending within 24 hours or paid within 12 hours, and names the
\* rule of the window that allowed.
C19_CancellationWindows ==
    (policy_call.fn = "infer_cancellation_policy"
        /\ policy_call.order_status \in ClaimedStatuses) =>
        LET r == policy_call.result
            pending_ok == /\ policy_call.order_status = "pending"
                          /\ policy_call.minutes_since_created <= 24 * 60
            paid_ok == /\ policy_call.order_status = "paid"
                       /\ policy_call.minutes_since_created <= 12 * 60
        IN  /\ r.allowed <=> (~policy_call.has_shipment /\ (pending_ok \/ paid_ok))
            /\ (r.allowed /\ pending_ok) => r.rule = "Pending24hCancellationRule"
            /\ (r.allowed /\ paid_ok) => r.rule = "Paid12hCancellationRule"

\* a paid order 12 hours old without shipment is allowed by the paid window
C19_Witness ==
    /\ policy_call.fn = "infer_cancellation_policy"
    /\ policy_call.order_status = "paid"
    /\ policy_call.minutes_since_created = 720
    /\ ~policy_call.has_shipment
    /\ policy_call.result.allowed
    /\ policy_call.result.rule = "Paid12hCancellationRule"

\* a step in which caller 1's cancel_order call returns
CancelOrderReturns ==
    /\ co_result'[1].status = "cancel_returned"
    /\ <<co_pc, co_result, ca_frame, before>>' # <<co_pc, co_result, ca_frame, before>>

\* the tables with one order's status replaced
WithOrderStatus(store, order_id, status) ==
    [store EXCEPT !.orders = [@ EXCEPT ![order_id].order_status = status]]

\* C20: when a cancel_order call returns, the order has been set to cancelled
\* if and only if the policy inferred from the order's status, its age and
\* its shipment allows it; on a denial the tables (order statuses, stocks,
\* spends) are as before the call; either way the result holds the policy
\* with its rule and reason, and its flags say what happened.
C20_CancelFollowsPolicy ==
    [][CancelOrderReturns =>
        LET f == ca_frame'[1]
            was == before'[1].orders[f.order_id]
            policy == InferCancellationPolicy(was.order_status,
                          f.minutes_since_order, f.order_id \in shipments')
        IN  /\ policy.allowed =>
                 /\ was.order_status # "cancelled"
                 /\ Store' = WithOrderStatus(before'[1], f.order_id, "cancelled")
            /\ ~policy.allowed => Store' = before'[1]
            /\ f.cancelled = policy.allowed
            /\ f.allowed = policy.allowed
            /\ f.policy = policy
            /\ f.policy.rule # "" /\ f.policy.reason # ""]_vars

\* a pending order more than a day old was refused and nothing was written
C20_Witness ==
    /\ co_result[1].status = "cancel_returned"
    /\ co_pc[1] = "idle"
    /\ ~ca_frame[1].cancelled
    /\ ca_frame[1].order_status = "pending"
    /\ ca_frame[1].minutes_since_order > 24 * MinutesPerHour
    /\ ~ca_frame[1].has_shipment
    /\ ca_frame[1].policy.rule = "DefaultCancellationRule"
    /\ ca_frame[1].policy.reason = "pending_after_24h"
    /\ orders[ca_frame[1].order_id].order_status = "pending"
    /\ Store = before[1]

TerminalStatuses == {"cancelled", "returned"}

\* C21: an order that is cancelled or returned keeps its status in every
\* later step, whatever operation takes it, and a cancel_order call on such
\* an order returns cancelled = false with the tables as before the call.
C21_TerminalStatusesStay ==
    [][/\ \A i \in DOMAIN orders :
            orders[i].order_status \in TerminalStatuses =>
                orders'[i].order_status = orders[i].order_status
       /\ CancelOrderReturns =>
            LET f == ca_frame'[1]
            IN  before'[1].orders[f.order_id].order_status \in TerminalStatuses =>
                    ~f.cancelled /\ Store' = before'[1]]_vars

\* the three ways of writing order i: its id, its number, the number's digits
IdentifiersOf(i) ==
    {<<DigitChar(orders[i].order_id)>>, orders[i].order_no,
     SubSeq(orders[i].order_no, 4, Len(orders[i].order_no))}

C26_OrderNumbersUnique ==
    /\ \A i, j \in DOMAIN orders :
          i # j => orders[i].order_no # orders[j].order_no
    /\ \A i \in DOMAIN orders : ResolveOrderEntity(orders, orders[i].order_no) = i
    /\ co_result[1].status # "order_no_taken"

\* C23: whenever the model is about to be asked in an iteration whose gate
\* evaluation reported a requirement, the messages of the turn (they start
\* afresh with each turn) hold a validation reminder.
C23_ReminderInEveryRequiringIteration ==
    (pc = "llm" /\ requires_validation) =>
        \E i \in DOMAIN messages : messages[i].kind = "reminder"

\* C24: within a turn every step leaves the records of tool_log as they are
\* and in place; a dispatch adds one record at the end, for the first call
\* of the reply not yet dispatched, with the current iteration index; no
\* other step adds a record.
C24_ToolLogAppendOnly ==
    [][pc # "idle" =>
        /\ Len(tool_log') >= Len(tool_log)
        /\ \A i \in DOMAIN tool_log : tool_log'[i] = tool_log[i]
        /\ Len(tool_log') <= Len(tool_log) + 1
        /\ Len(tool_log') = Len(tool_log) + 1 =>
              /\ pc = "dispatch"
              /\ tool_log'[Len(tool_log')].tool = Head(tool_calls).name
              /\ tool_log'[Len(tool_log')].iteration = iteration
              /\ tool_calls' = Tail(tool_calls)]_vars

\* C25: the stage changes only in the step that ends a turn after its loop
\* has ended; every step of the loop, the gate evaluations among them, and
\* the end of a turn by a model-call error leave it as the previous turn
\* left it.
C25_StageChangesOnlyAfterLoop ==
    [][/\ stage' # stage => (pc = "after_loop" /\ pc' = "idle")
       /\ (pc = "llm" /\ pc' = "idle") => stage' = stage]_vars

\* a turn that used up its iterations has ended and its stage update left
\* the stage at checkout
C25_Witness ==
    /\ pc = "idle"
    /\ result.returned /\ ~result.error
    /\ iteration = MaxIterations
    /\ Len(tool_log) > 0
    /\ Len(execution_log) >= 2
    /\ execution_log[Len(execution_log) - 1] = "conversation_state"
    /\ stage = "checkout"

TierOrVolumeRules ==
    {"SVIPDiscountRule", "VIPDiscountRule", "VolumeDiscount10kRule",
     "VolumeDiscount5kRule"}

C28_NoCancelOfShippedOrder ==
    [][\A i \in DOMAIN orders :
          (orders'[i].order_status = "cancelled" /\ orders[i].order_status # "cancelled")
              => i \notin shipments]_vars

\* C29: no product's stock_quantity is ever below zero.
C29_StockNeverNegative ==
    \A p \in DOMAIN products : products[p].stock_quantity >= 0

\* C30: a step that records a payment appends one payment row for a stored
\* order, whatever the order's status, sets that order's payment_status to
\* paid and changes nothing else, the order's status least of all; a pending
\* order that has been paid for is then cancelled by cancel_order under the
\* pending rule, up to 24 hours after its creation.
C30_PaymentLeavesOrderStatus ==
    [][/\ payments' # payments =>
            \E i \in DOMAIN orders :
                /\ Len(payments') = Len(payments) + 1
                /\ SubSeq(payments', 1, Len(payments)) = payments
                /\ payments'[Len(payments')].order_id = i
                /\ orders' = [orders EXCEPT ![i].payment_status = "paid"]
                /\ orders'[i].order_status = orders[i].order_status
                /\ UNCHANGED <<users, products, shipments>>
       /\ CancelOrderReturns =>
            LET f == ca_frame'[1]
                was == before'[1].orders[f.order_id]
            IN  (/\ was.payment_status = "paid"
                 /\ was.order_status = "pending"
                 /\ ~f.has_shipment
                 /\ f.minutes_since_order <= 24 * MinutesPerHour)
                => /\ f.cancelled
                   /\ f.policy.rule = "Pending24hCancellationRule"]_vars

\* an order paid for while pending was cancelled 13 hours after its
\* creation, past the window of a paid order
C30_Witness ==
    /\ co_result[1].status = "cancel_returned"
    /\ ca_frame[1].cancelled
    /\ ca_frame[1].minutes_since_order > 12 * MinutesPerHour
    /\ ca_frame[1].policy.rule = "Pending24hCancellationRule"
    /\ before[1].orders[ca_frame[1].order_id].payment_status = "paid"
    /\ \E k \in DOMAIN payments : payments[k].order_id = ca_frame[1].order_id

====
